---- MODULE Spec2Model ----
(***************************************************************************)
(* Model of examples/htcondor_at_desy/analysis/framework.py: the Task base *)
(* class (store_parts, local_path) and the HTCondorWorkflow hooks          *)
(* (htcondor_output_directory, htcondor_job_config).                       *)
(*                                                                         *)
(* Directive keys and values and render variables are atomic strings.      *)
(* File system paths are sequences of one-character strings, so that       *)
(* os.path.join is computed character by character.                        *)
(***************************************************************************)
EXTENDS Integers, Sequences, FiniteSets, TLC

VARIABLES environ, task, config, calls, raised, outdir, lpath

vars == <<environ, task, config, calls, raised, outdir, lpath>>

(***************************************************************************)
(* Bounds                                                                  *)
(***************************************************************************)
MaxIncoming == 2
MaxCalls == 2
MaxJobNum == 2
MaxBranch == 2
NumTasks == 2
MaxVersionLen == 2

TaskIds == 1..NumTasks

(***************************************************************************)
(* Python's None, as returned by os.getenv for an unset variable.          *)
(***************************************************************************)
None == "<None>"

(***************************************************************************)
(* The three directives of lines 70, 84 and 91.                            *)
(***************************************************************************)
RequirementsCC7 == "(OpSysAndVer =?= \"CentOS7\")"
OnExitHold == "(ExitBySignal == True) || (ExitStatus != 0) || (ExitCode != 0)"

DefaultMaxRuntime == 3
MaxRuntimes == {1, DefaultMaxRuntime}

(***************************************************************************)
(* Inputs: what a job config may carry before the hook runs.               *)
(***************************************************************************)
IncomingEntries ==
    { <<"requirements", "(OpSysAndVer =?= \"SL6\")">>,
      <<"getenv", "false">>,
      <<"getenv", "true">>,
      <<"request_memory", "2GB">> }

SeqsUpTo(S, n) == UNION { [1..k -> S] : k \in 0..n }

RenderKeys == {"analysis_path", "job_file"}
RenderValues == {"/old", "job.sh"}
RenderMaps == UNION { [D -> RenderValues] : D \in SUBSET RenderKeys }

AnalysisPaths == {"", "/ana", "/old"}

Char == {"/", "v"}
Versions == SeqsUpTo(Char, MaxVersionLen)
ClassNames == { <<"A">>, <<"B">> }
DataPaths == { <<"/", "d">>, <<"/", "d", "/">> }
PathParts == { <<"o">>, <<"/", "o">> }
ExtraPaths == { <<>> } \cup { <<p>> : p \in PathParts }

(***************************************************************************)
(* os.getenv(name): the value, or None when the variable is unset.         *)
(***************************************************************************)
getenv(name) == IF name \in DOMAIN environ THEN environ[name] ELSE None

(***************************************************************************)
(* d[k] = v on a Python dict.                                              *)
(***************************************************************************)
SetItem(d, k, v) == [x \in (DOMAIN d) \cup {k} |-> IF x = k THEN v ELSE d[x]]

(***************************************************************************)
(* os.path.join(a, *p) of posixpath: a component that starts with "/"      *)
(* discards everything before it; otherwise components are joined with a   *)
(* single "/" unless the path so far is empty or already ends with "/".    *)
(***************************************************************************)
JoinOne(path, b) ==
    IF Len(b) > 0 /\ b[1] = "/" THEN b
    ELSE IF Len(path) = 0 \/ path[Len(path)] = "/" THEN path \o b
    ELSE path \o <<"/">> \o b

RECURSIVE join(_, _)
join(a, p) == IF p = <<>> THEN a ELSE join(JoinOne(a, Head(p)), Tail(p))

(***************************************************************************)
(* Task.store_parts and Task.local_path.  local_path is only defined when  *)
(* ANALYSIS_DATA_PATH is set; os.path.join raises TypeError on None.       *)
(***************************************************************************)
store_parts(self) == <<self.cls, self.version>>

local_path(self, path) ==
    join(environ["ANALYSIS_DATA_PATH"], store_parts(self) \o path)

local_path_raises == "ANALYSIS_DATA_PATH" \notin DOMAIN environ

(***************************************************************************)
(* HTCondorWorkflow.htcondor_output_directory: the directory target at     *)
(* local_path() with no extra parts.                                       *)
(***************************************************************************)
htcondor_output_directory(self) == local_path(self, <<>>)

(***************************************************************************)
(* Variants of htcondor_job_config with one plausible fault each.          *)
(***************************************************************************)
Keys(cc) == { cc[i][1] : i \in 1..Len(cc) }

\* line 84 missing
htcondor_job_config_NoGetenv(self, cfg, job_num, branches) ==
    [render_variables |->
        SetItem(cfg.render_variables, "analysis_path", getenv("ANALYSIS_PATH")),
     custom_content |->
        cfg.custom_content \o << <<"requirements", RequirementsCC7>>,
                                 <<"on_exit_hold", OnExitHold>> >>]

\* lines 79-80 active: the runtime cap is rendered
htcondor_job_config_MaxRuntime(self, cfg, job_num, branches) ==
    [render_variables |->
        SetItem(cfg.render_variables, "analysis_path", getenv("ANALYSIS_PATH")),
     custom_content |->
        cfg.custom_content \o << <<"requirements", RequirementsCC7>>,
                                 <<"+MaxRuntime", ToString(self.max_runtime * 3600 - 1)>>,
                                 <<"getenv", "true">>,
                                 <<"on_exit_hold", OnExitHold>> >>]

\* directives are skipped when the list already holds them
htcondor_job_config_Idempotent(self, cfg, job_num, branches) ==
    LET add(cc, e) == IF \E i \in 1..Len(cc) : cc[i] = e THEN cc ELSE Append(cc, e)
    IN  [render_variables |->
            SetItem(cfg.render_variables, "analysis_path", getenv("ANALYSIS_PATH")),
         custom_content |->
            add(add(add(cfg.custom_content, <<"requirements", RequirementsCC7>>),
                    <<"getenv", "true">>),
                <<"on_exit_hold", OnExitHold>>)]

\* a directive whose key is already present is overwritten in place
htcondor_job_config_Replace(self, cfg, job_num, branches) ==
    LET put(cc, e) ==
            IF e[1] \in Keys(cc)
            THEN [i \in 1..Len(cc) |-> IF cc[i][1] = e[1] THEN e ELSE cc[i]]
            ELSE Append(cc, e)
    IN  [render_variables |->
            SetItem(cfg.render_variables, "analysis_path", getenv("ANALYSIS_PATH")),
         custom_content |->
            put(put(put(cfg.custom_content, <<"requirements", RequirementsCC7>>),
                    <<"getenv", "true">>),
                <<"on_exit_hold", OnExitHold>>)]

\* insert(0, ...) instead of append: the policy set goes to the front
htcondor_job_config_Prepend(self, cfg, job_num, branches) ==
    [render_variables |->
        SetItem(cfg.render_variables, "analysis_path", getenv("ANALYSIS_PATH")),
     custom_content |->
        << <<"requirements", RequirementsCC7>>,
           <<"getenv", "true">>,
           <<"on_exit_hold", OnExitHold>> >> \o cfg.custom_content]

\* render_variables.setdefault instead of assignment
htcondor_job_config_SetDefault(self, cfg, job_num, branches) ==
    [render_variables |->
        IF "analysis_path" \in DOMAIN cfg.render_variables
        THEN cfg.render_variables
        ELSE SetItem(cfg.render_variables, "analysis_path", getenv("ANALYSIS_PATH")),
     custom_content |->
        cfg.custom_content \o << <<"requirements", RequirementsCC7>>,
                                 <<"getenv", "true">>,
                                 <<"on_exit_hold", OnExitHold>> >>]

(***************************************************************************)
(* HTCondorWorkflow.htcondor_job_config(self, config, job_num, branches):  *)
(* line 68 assigns render_variables["analysis_path"], lines 70, 84 and 91  *)
(* append one directive each; lines 78-81 and 88 are not executed.         *)
(***************************************************************************)
htcondor_job_config(self, cfg, job_num, branches) ==
    LET c1 == [cfg EXCEPT !.render_variables =
                   SetItem(@, "analysis_path", getenv("ANALYSIS_PATH"))]
        c2 == [c1 EXCEPT !.custom_content =
                   Append(@, <<"requirements", RequirementsCC7>>)]
        c3 == [c2 EXCEPT !.custom_content = Append(@, <<"getenv", "true">>)]
        c4 == [c3 EXCEPT !.custom_content = Append(@, <<"on_exit_hold", OnExitHold>>)]
    IN  c4

(***************************************************************************)
(* State                                                                   *)
(***************************************************************************)
NoResult == [done |-> FALSE, path |-> <<>>]

Tasks == [cls : ClassNames, version : Versions, max_runtime : MaxRuntimes]

\* job config rendering: the environment, the task's max_runtime and the
\* incoming config are drawn; the task identities are fixed
Init ==
    /\ \E ap \in AnalysisPaths \cup {None} :
          environ = IF ap = None
                    THEN [n \in {"ANALYSIS_DATA_PATH"} |-> <<"/", "d">>]
                    ELSE [n \in {"ANALYSIS_PATH", "ANALYSIS_DATA_PATH"} |->
                             IF n = "ANALYSIS_PATH" THEN ap ELSE <<"/", "d">>]
    /\ \E r \in MaxRuntimes :
          task = [t \in TaskIds |->
                     [cls |-> <<"A">>, version |-> <<"v">>, max_runtime |-> r]]
    /\ \E cc \in SeqsUpTo(IncomingEntries, MaxIncoming), rv \in RenderMaps :
          config = [render_variables |-> rv, custom_content |-> cc]
    /\ calls = 0
    /\ raised = None
    /\ outdir = [t \in TaskIds |-> NoResult]
    /\ lpath = [t \in TaskIds |-> NoResult]

\* path resolution: the data path and the task identities are drawn; the
\* job config is the empty one
PathInit ==
    /\ \E dp \in DataPaths \cup {<<>>} :
          environ = IF dp = <<>>
                    THEN [n \in {"ANALYSIS_PATH"} |-> "/ana"]
                    ELSE [n \in {"ANALYSIS_PATH", "ANALYSIS_DATA_PATH"} |->
                             IF n = "ANALYSIS_PATH" THEN "/ana" ELSE dp]
    /\ task \in [TaskIds -> Tasks]
    /\ \A t \in TaskIds : task[t].max_runtime = DefaultMaxRuntime
    /\ config = [render_variables |-> <<>>, custom_content |-> <<>>]
    /\ calls = 0
    /\ raised = None
    /\ outdir = [t \in TaskIds |-> NoResult]
    /\ lpath = [t \in TaskIds |-> NoResult]

(***************************************************************************)
(* Operations                                                              *)
(***************************************************************************)
HtcondorJobConfig(t, job_num, branches) ==
    /\ calls < MaxCalls
    /\ config' = htcondor_job_config(task[t], config, job_num, branches)
    /\ calls' = calls + 1
    /\ raised' = None
    /\ UNCHANGED <<environ, task, outdir, lpath>>

HtcondorOutputDirectory(t) ==
    /\ ~ outdir[t].done
    /\ IF local_path_raises
       THEN /\ raised' = "TypeError"
            /\ UNCHANGED outdir
       ELSE /\ raised' = None
            /\ outdir' = [outdir EXCEPT ![t] =
                             [done |-> TRUE, path |-> htcondor_output_directory(task[t])]]
    /\ UNCHANGED <<environ, task, config, calls, lpath>>

LocalPath(t, path) ==
    /\ ~ lpath[t].done
    /\ IF local_path_raises
       THEN /\ raised' = "TypeError"
            /\ UNCHANGED lpath
       ELSE /\ raised' = None
            /\ lpath' = [lpath EXCEPT ![t] =
                            [done |-> TRUE, path |-> local_path(task[t], path)]]
    /\ UNCHANGED <<environ, task, config, calls, outdir>>

Next ==
    \E t \in TaskIds, job_num \in 1..MaxJobNum, branches \in SUBSET (0..MaxBranch) :
        HtcondorJobConfig(t, job_num, branches)

PathNext ==
    \/ \E t \in TaskIds : HtcondorOutputDirectory(t)
    \/ \E t \in TaskIds, path \in ExtraPaths : LocalPath(t, path)

Spec == Init /\ [][Next]_vars

PathSpec == PathInit /\ [][PathNext]_vars

(***************************************************************************)
(* Properties                                                              *)
(***************************************************************************)
HasEntry(cc, e) == \E i \in 1..Len(cc) : cc[i] = e

NoDuplicateKeys(cc) == \A i, j \in 1..Len(cc) : cc[i][1] = cc[j][1] => i = j

IsPrefix(a, b) == Len(a) <= Len(b) /\ SubSeq(b, 1, Len(a)) = a

IsAbsolute(path) == Len(path) > 0 /\ path[1] = "/"

\* a step that is one call of htcondor_job_config
Rendered == calls' = calls + 1

\* C1: once htcondor_job_config has run, the directive list holds
\* ("getenv", "true"), a "requirements" entry forcing CentOS7 and an
\* "on_exit_hold" entry, whatever directives the incoming config carried.
C1_PolicyPresent ==
    calls >= 1 =>
        /\ HasEntry(config.custom_content, <<"getenv", "true">>)
        /\ HasEntry(config.custom_content,
                    <<"requirements", "(OpSysAndVer =?= \"CentOS7\")">>)
        /\ "on_exit_hold" \in Keys(config.custom_content)

C1_Witness ==
    /\ calls = 1
    /\ Len(config.custom_content) = 5
    /\ config.custom_content[1] = <<"getenv", "false">>
    /\ config.custom_content[2][1] = "requirements"

C3_Original ==
    [][(calls = 0 /\ Rendered /\ NoDuplicateKeys(config.custom_content)) =>
          NoDuplicateKeys(config'.custom_content)]_vars

\* C4: every directive of the incoming config is still there after
\* htcondor_job_config, with its key, its value and its position among the
\* incoming ones, and every entry added for a policy key has the policy
\* value, also when the incoming config has an entry with that key.
C4_IncomingKept ==
    [][Rendered =>
          LET old == config.custom_content
              new == config'.custom_content
          IN  /\ Len(new) > Len(old)
              /\ \A i \in 1..Len(old) : new[i] = old[i]
              /\ \A k \in {"requirements", "getenv", "on_exit_hold"} :
                    \E i \in (Len(old) + 1)..Len(new) : new[i][1] = k
              /\ \A i \in (Len(old) + 1)..Len(new) :
                    /\ new[i][1] = "requirements" => new[i][2] = RequirementsCC7
                    /\ new[i][1] = "getenv" => new[i][2] = "true"
                    /\ new[i][1] = "on_exit_hold" => new[i][2] = OnExitHold]_vars

C4_Witness ==
    /\ calls = 1
    /\ Len(config.custom_content) = 4
    /\ config.custom_content[1] = <<"requirements", "(OpSysAndVer =?= \"SL6\")">>
    /\ config.custom_content[2] = <<"requirements", RequirementsCC7>>

\* C6 as stated: when ANALYSIS_PATH is unset or empty, htcondor_job_config
\* fails; it never returns a config whose render_variables["analysis_path"]
\* is missing, None or empty.
C6_Original ==
    calls >= 1 =>
        \/ raised # None
        \/ /\ "analysis_path" \in DOMAIN config.render_variables
           /\ config.render_variables["analysis_path"] \notin {None, ""}

\* C7: after htcondor_job_config, render_variables["analysis_path"] is the
\* value of ANALYSIS_PATH whatever the key held before, and every other key
\* has the value it had before; no other key appears or disappears.
C7_EnvTakesPrecedence ==
    [][Rendered =>
          LET old == config.render_variables
              new == config'.render_variables
          IN  /\ DOMAIN new = (DOMAIN old) \cup {"analysis_path"}
              /\ new["analysis_path"] = getenv("ANALYSIS_PATH")
              /\ \A k \in (DOMAIN old) \ {"analysis_path"} : new[k] = old[k]]_vars

C7_Witness ==
    /\ calls = 1
    /\ getenv("ANALYSIS_PATH") = "/ana"
    /\ DOMAIN config.render_variables = {"analysis_path", "job_file"}
    /\ config.render_variables["analysis_path"] = "/ana"
    /\ config.render_variables["job_file"] = "/old"

\* C8 as stated: the output directory is an absolute path, two tasks have
\* the same output directory exactly when they have the same class name and
\* the same version, and every local_path(*p) of a task lies below the
\* task's output directory.
C8_Original ==
    \A t, u \in TaskIds :
        /\ outdir[t].done => IsAbsolute(outdir[t].path)
        /\ (outdir[t].done /\ outdir[u].done) =>
              ((outdir[t].path = outdir[u].path) <=>
                  (task[t].cls = task[u].cls /\ task[t].version = task[u].version))
        /\ (outdir[t].done /\ lpath[t].done) =>
              IsPrefix(outdir[t].path, lpath[t].path)

\* C9 as stated: in the rendered list the requirements, getenv and
\* on_exit_hold entries come, in this order, before every directive the
\* incoming config carried.
C9_Original ==
    [][Rendered =>
          LET old == config.custom_content
              new == config'.custom_content
              first == Len(new) - Len(old)
          IN  /\ first >= 3
              /\ SubSeq(new, first + 1, Len(new)) = old
              /\ \E p1, p2, p3 \in 1..first :
                    /\ p1 < p2 /\ p2 < p3
                    /\ new[p1] = <<"requirements", RequirementsCC7>>
                    /\ new[p2] = <<"getenv", "true">>
                    /\ new[p3] = <<"on_exit_hold", OnExitHold>>]_vars

\* C9 as amended: in the rendered list the requirements, getenv and
\* on_exit_hold entries come, in this order, after every directive the
\* incoming config carried.
C9_PolicyLast ==
    [][Rendered =>
          LET old == config.custom_content
              new == config'.custom_content
          IN  /\ IsPrefix(old, new)
              /\ \E p1, p2, p3 \in (Len(old) + 1)..Len(new) :
                    /\ p1 < p2 /\ p2 < p3
                    /\ new[p1] = <<"requirements", RequirementsCC7>>
                    /\ new[p2] = <<"getenv", "true">>
                    /\ new[p3] = <<"on_exit_hold", OnExitHold>>]_vars

C9_Witness ==
    /\ calls = 1
    /\ Len(config.custom_content) = 5
    /\ config.custom_content[1] = <<"request_memory", "2GB">>
    /\ config.custom_content[5][1] = "on_exit_hold"

\* C10: one call of htcondor_job_config lengthens custom_content by exactly
\* three entries with keys requirements, getenv, on_exit_hold in this order
\* (so neither "+MaxRuntime" nor "log" is added), and the resulting config
\* is the same for every max_runtime, job_num and branches.
C10_ThreeEntries ==
    [][Rendered =>
          LET n == Len(config.custom_content)
              new == config'.custom_content
          IN  /\ Len(new) = n + 3
              /\ <<new[n + 1][1], new[n + 2][1], new[n + 3][1]>> =
                    <<"requirements", "getenv", "on_exit_hold">>
              /\ \A t \in TaskIds, r \in MaxRuntimes, job_num \in 1..MaxJobNum,
                    branches \in SUBSET (0..MaxBranch) :
                    htcondor_job_config([task[t] EXCEPT !.max_runtime = r],
                                        config, job_num, branches) = config']_vars

C10_Witness ==
    /\ calls = 1
    /\ task[1].max_runtime = 1
    /\ Len(config.custom_content) = 3
    /\ config.custom_content[2][1] = "getenv"

====
